---- MODULE Spec2Model ----
(***************************************************************************)
(* Model of BTL_DATA.py: the shop photo store kept in shops_data.xlsx.     *)
(* save_image_to_excel (the upsert) is modelled statement group by         *)
(* statement group; each session has a position (pc) in it.  The backing   *)
(* file and the transient image file temp_img.jpg are shared state.        *)
(*                                                                         *)
(* Units.  Column widths are kept in sevenths of a spreadsheet width unit  *)
(* (width 30 is 210, new_width / 7 is new_width) and row heights in        *)
(* 1/133 of a height unit (height 15 is 1995, new_height / 1.33 is         *)
(* 100 * new_height), so that the quotients of the code are exact.         *)
(* Python floats are IEEE 754 doubles: the resize ratio and its product    *)
(* are computed on 53 bit mantissas held as bit sequences, lowest bit      *)
(* first.                                                                  *)
(***************************************************************************)
EXTENDS Integers, Sequences, FiniteSets, TLC

\* ------------------------------------------------------------------ bounds
MaxCalls == 3      \* upsert calls in one behaviour
MaxConcCalls == 2  \* upsert calls in one behaviour of two sessions at once
MaxW == 150        \* widest image of the normalization domain
MaxH == 350        \* tallest image of the normalization domain

\* --------------------------------------------------------------- constants
MAX_IMAGE_HEIGHT == 300
DefaultMaxImageWidth == 210     \* wb.max_image_width = 30, in sevenths
MinColumnWidth == 70            \* max(10, ...), in sevenths
MinRowHeight == 1995            \* max(15, ...), in 1/133
RowHeightPerPixel == 100        \* new_height / 1.33, in 1/133
MantBits == 53                  \* mantissa of a Python float
ChunkBits == 13                 \* bits handled at a time; divides MantBits - 1

TEMP_IMAGE == "temp_img.jpg"
DATA_COLUMNS == <<"Shop_ID", "Region", "last_updated">>

Max(a, b) == IF a >= b THEN a ELSE b
Min(a, b) == IF a <= b THEN a ELSE b

\* ------------------------------------------------- floating point (doubles)
\* A positive double is [mant, exp]: the number mant * 2^exp, mant a bit
\* sequence with the lowest bit first and no leading zero.  The arithmetic
\* goes ChunkBits bits at a time so that every intermediate number fits a
\* machine integer.

\* F(v), with v evaluated once
ByValue(F(_), v) == CHOOSE r \in {F(x) : x \in {v}} : TRUE

Chunk == 2 ^ ChunkBits

\* the n lowest bits of x
ToBits(x, n) ==
    ByValue(LAMBDA v : [i \in 1..n |-> (v \div 2 ^ (i - 1)) % 2], x)

\* the number whose bits are m
RECURSIVE ToNat(_)
ToNat(m) ==
    ByValue(LAMBDA v : IF v = <<>> THEN 0 ELSE Head(v) + 2 * ToNat(Tail(v)), m)

\* v without its leading zeros
StripValue(v) ==
    LET ones == {i \in 1..Len(v) : v[i] = 1}
    IN IF ones = {} THEN <<>>
       ELSE SubSeq(v, 1, CHOOSE i \in ones : \A j \in ones : i >= j)

Strip(m) == ByValue(StripValue, m)

RECURSIVE ShiftUntil(_, _)
ShiftUntil(a, b) == IF a >= b THEN a ELSE ShiftUntil(2 * a, b)

RECURSIVE ShiftCount(_, _)
ShiftCount(a, b) == IF a >= b THEN 0 ELSE 1 + ShiftCount(2 * a, b)

\* v + 1
IncValue(v) ==
    LET zeros == {i \in 1..Len(v) : v[i] = 0}
        c == IF zeros = {} THEN Len(v) + 1
             ELSE CHOOSE i \in zeros : \A j \in zeros : i <= j
    IN [i \in 1..Max(Len(v), c) |-> IF i < c THEN 0 ELSE IF i = c THEN 1 ELSE v[i]]

Inc(m) == ByValue(IncValue, m)

\* one step of the long division by b: the next ChunkBits quotient bits are
\* put below the ones found so far
DivStep(q, b) ==
    ByValue(LAMBDA v : [mant |-> ToBits((v.rem * Chunk) \div b, ChunkBits) \o v.mant,
                        rem |-> (v.rem * Chunk) % b], q)

RECURSIVE DivBits(_, _, _)
DivBits(q, b, n) ==
    IF n = 0 THEN q ELSE ByValue(LAMBDA v : DivBits(v, b, n - 1), DivStep(q, b))

\* the quotient bits q rounded to nearest, ties to even, on the remainder
RoundQuotient(q, b) ==
    IF 2 * q.rem > b \/ (2 * q.rem = b /\ Head(q.mant) = 1)
    THEN Inc(q.mant) ELSE q.mant

\* a / b for integers 0 < a < b, rounded to nearest, ties to even
FloatDiv(a, b) ==
    [mant |-> ByValue(LAMBDA v : RoundQuotient(v, b),
                      DivBits([mant |-> <<1>>, rem |-> ShiftUntil(a, b) - b],
                              b, (MantBits - 1) \div ChunkBits)),
     exp |-> 0 - ShiftCount(a, b) - (MantBits - 1)]

\* one step of the multiplication by w: t is w times the next chunk of the
\* other factor plus the carry, done the product bits so far
MulStep(done, t) ==
    ByValue(LAMBDA v : [done |-> done \o ToBits(v % Chunk, ChunkBits),
                        carry |-> v \div Chunk], t)

RECURSIVE MulBits(_, _, _, _)
MulBits(acc, w, m, i) ==
    IF i > Len(m) /\ acc.carry = 0 THEN Strip(acc.done)
    ELSE ByValue(LAMBDA v : MulBits(v, w, m, i + ChunkBits),
                 MulStep(acc.done,
                         w * ToNat(SubSeq(m, i, Min(i + ChunkBits - 1, Len(m))))
                           + acc.carry))

\* v * 2^e cut to MantBits bits, rounded to nearest, ties to even
RoundMant(v, e) ==
    IF Len(v) <= MantBits THEN [mant |-> v, exp |-> e]
    ELSE LET s == Len(v) - MantBits
             up == /\ v[s] = 1
                   /\ (\E i \in 1..(s - 1) : v[i] = 1) \/ v[s + 1] = 1
         IN [mant |-> IF up THEN Inc(SubSeq(v, s + 1, Len(v)))
                      ELSE SubSeq(v, s + 1, Len(v)),
             exp |-> e + s]

\* w * f for an integer w >= 0, rounded to nearest, ties to even
FloatMulInt(w, f) ==
    ByValue(LAMBDA v : RoundMant(v, f.exp),
            MulBits([done |-> <<>>, carry |-> 0], w, f.mant, 1))

\* int(f): truncation of a non-negative double
IntOfFloat(f) ==
    IF f.exp >= 0 THEN ToNat([i \in 1..f.exp |-> 0] \o f.mant)
    ELSE ToNat(SubSeq(f.mant, 1 - f.exp, Len(f.mant)))

\* int(w * (a / b)) as Python computes it, for integers 0 < a < b and w >= 0
IntOfScaled(w, a, b) ==
    ByValue(LAMBDA q : ByValue(IntOfFloat, FloatMulInt(w, q)), FloatDiv(a, b))

\* ------------------------------------------------------------ normalization
\* lines 62-68: the dimensions the image is resized to
NewWidth(w, h) ==
    IF h > MAX_IMAGE_HEIGHT THEN IntOfScaled(w, MAX_IMAGE_HEIGHT, h) ELSE w

NewHeight(w, h) == IF h > MAX_IMAGE_HEIGHT THEN MAX_IMAGE_HEIGHT ELSE h

\* line 76: required_width = max(10, new_width / 7), in sevenths
RequiredWidth(new_width) == Max(MinColumnWidth, new_width)

\* line 84: row_height = max(15, new_height / 1.33), in 1/133
RowHeight(new_height) == Max(MinRowHeight, RowHeightPerPixel * new_height)

\* -------------------------------------------------------------------- data
\* An uploaded file: malformed bytes, or an image of a mode and a size.
Images ==
    { [id |-> "garbage",  valid |-> FALSE, mode |-> "none", w |-> 0,   h |-> 0],
      [id |-> "wide",     valid |-> TRUE,  mode |-> "RGBA", w |-> 700, h |-> 100],
      [id |-> "photo",    valid |-> TRUE,  mode |-> "RGB",  w |-> 400, h |-> 200],
      [id |-> "portrait", valid |-> TRUE,  mode |-> "RGB",  w |-> 600, h |-> 900],
      [id |-> "palette",  valid |-> TRUE,  mode |-> "P",    w |-> 100, h |-> 100] }

\* The (shop_id, region) pairs a caller passes.
Keys == { <<"S1", "North">>, <<"S1", "South">>, <<"Shop_ID", "Region">> }

Sessions == {1, 2}
MainSession == 1

EmptyCell == ""       \* a cell of a text column that holds no value
NoTimestamp == 0      \* a cell of the timestamp column that holds no value
DefaultHeight == 0    \* a row whose height was never set

\* A sheet row: columns A, B, C, D and the row's height.
HeaderRow ==
    [a |-> DATA_COLUMNS[1], b |-> DATA_COLUMNS[2], c |-> DATA_COLUMNS[3],
     d |-> NoTimestamp, height |-> DefaultHeight]

KeyRow(shop_id, region) ==
    [a |-> shop_id, b |-> region, c |-> EmptyCell,
     d |-> NoTimestamp, height |-> DefaultHeight]

\* The backing file: missing, a workbook, or an unreadable partial archive.
MissingFile == [status |-> "missing", rows |-> <<>>, widthC |-> 0, images |-> <<>>]
CorruptFile == [status |-> "corrupt", rows |-> <<>>, widthC |-> 0, images |-> <<>>]
SheetFile(rows) ==
    [status |-> "ok", rows |-> rows, widthC |-> DefaultMaxImageWidth, images |-> <<>>]

\* The files a run can find: none, the header alone, or shop rows with
\* pairwise distinct keys entered beforehand.
InitialFiles ==
    { MissingFile,
      SheetFile(<<HeaderRow>>),
      SheetFile(<<HeaderRow, KeyRow("S1", "North")>>),
      SheetFile(<<HeaderRow, KeyRow("S1", "South"), KeyRow("S1", "North")>>) }

NoTemp == [exists |-> FALSE, src |-> "none", w |-> 0, h |-> 0]
NoWb == [loaded |-> FALSE, rows |-> <<>>, widthC |-> 0, images |-> <<>>,
         max_image_width |-> 0]
NoArgs == [key |-> <<"", "">>, img |-> "none"]
NoLocal == [row_idx |-> 0, mode |-> "none", width |-> 0, height |-> 0,
            new_width |-> 0, new_height |-> 0, raised |-> "none", ret |-> "none"]

ImageOf(id) == CHOOSE im \in Images : im.id = id

\* ------------------------------------------------------------------- state
VARIABLES
    file,     \* shops_data.xlsx as persisted
    temp,     \* temp_img.jpg
    pc,       \* pc[s]: position of session s in save_image_to_excel
    args,     \* args[s]: (shop_id, region) and uploaded_file of the call
    wb,       \* wb[s]: the workbook session s holds in memory
    local,    \* local[s]: row_idx, img, new_width, new_height, outcome
    result,   \* result[s]: what the last call of s returned
    before,   \* before[s]: the backing file as it was when s was called
    calls,    \* upsert calls made so far; also the clock of datetime.now()
    geom      \* normalization domain: an input size and what it is resized to

vars == <<file, temp, pc, args, wb, local, result, before, calls, geom>>

NoGeom == [w |-> 0, h |-> 0, done |-> FALSE, new_width |-> 0, new_height |-> 0]

Init ==
    /\ file \in InitialFiles
    /\ temp = NoTemp
    /\ pc = [s \in Sessions |-> "idle"]
    /\ args = [s \in Sessions |-> NoArgs]
    /\ wb = [s \in Sessions |-> NoWb]
    /\ local = [s \in Sessions |-> NoLocal]
    /\ result = [s \in Sessions |-> "none"]
    /\ before = [s \in Sessions |-> MissingFile]
    /\ calls = 0
    /\ geom = NoGeom

\* ------------------------------------------------------- load_or_create_excel
\* lines 20-37.  An existing file is loaded with its rows, widths and images;
\* max_image_width is no attribute of a loaded workbook, so it is set to 30.
\* With no file, line 27 calls load_workbook() without its filename, which
\* raises before anything is created: nothing is loaded (NoWb).
LoadOrCreate(f) ==
    IF f.status = "ok"
    THEN [loaded |-> TRUE, rows |-> f.rows, widthC |-> f.widthC,
          images |-> f.images, max_image_width |-> DefaultMaxImageWidth]
    ELSE NoWb

\* variant: the scan never matches
FindRowNever(rows, key) == 0

\* variant: the scan does not stop at its first hit, the last match wins
FindRowLast(rows, key) ==
    LET hits == {i \in 1..Len(rows) : rows[i].a = key[1] /\ rows[i].b = key[2]}
    IN IF hits = {} THEN 0 ELSE CHOOSE i \in hits : \A j \in hits : i >= j

\* lines 45-49: the index of the first row that holds the key, 0 for None
FindRow(rows, key) ==
    LET hits == {i \in 1..Len(rows) : rows[i].a = key[1] /\ rows[i].b = key[2]}
    IN IF hits = {} THEN 0 ELSE CHOOSE i \in hits : \A j \in hits : i <= j

\* lines 195-204 (and 134-142): the rows below the header, first three columns
ListRecords(f) ==
    [i \in 1..(Len(f.rows) - 1) |->
        <<f.rows[i + 1].a, f.rows[i + 1].b, f.rows[i + 1].c>>]

\* the overlays anchored at column C of a row
OverlaysAt(images, row) == {i \in 1..Len(images) : images[i].row = row}

\* line 109: what wb.save writes; an image added in this call is read from
\* temp_img.jpg while the archive is written
Saved(w, t) ==
    [status |-> "ok", rows |-> w.rows, widthC |-> w.widthC,
     images |-> [i \in 1..Len(w.images) |->
                   IF w.images[i].src = TEMP_IMAGE
                   THEN [w.images[i] EXCEPT !.src = t.src]
                   ELSE w.images[i]]]

HasTempRef(w) == \E i \in 1..Len(w.images) : w.images[i].src = TEMP_IMAGE

\* --------------------------------------------------------- save_image_to_excel
Raise(s, where) ==
    /\ pc' = [pc EXCEPT ![s] = "except"]
    /\ local' = [local EXCEPT ![s].raised = where]

\* line 39 (called from line 181)
Call(s, key, img) ==
    /\ pc[s] = "idle"
    /\ calls < MaxCalls
    /\ pc' = [pc EXCEPT ![s] = "load"]
    /\ args' = [args EXCEPT ![s] = [key |-> key, img |-> img]]
    /\ local' = [local EXCEPT ![s] = NoLocal]
    /\ wb' = [wb EXCEPT ![s] = NoWb]
    /\ result' = [result EXCEPT ![s] = "none"]
    /\ before' = [before EXCEPT ![s] = file]
    /\ calls' = calls + 1
    /\ UNCHANGED <<file, temp, geom>>

\* lines 41-42
Load(s) ==
    /\ pc[s] = "load"
    /\ IF LoadOrCreate(file).loaded
       THEN /\ wb' = [wb EXCEPT ![s] = LoadOrCreate(file)]
            /\ pc' = [pc EXCEPT ![s] = "locate"]
            /\ UNCHANGED local
       ELSE Raise(s, "load") /\ UNCHANGED wb
    /\ UNCHANGED <<file, temp, args, result, before, calls, geom>>

\* variant: a new key is written at max_row instead of max_row + 1
LocateAtMaxRow(s) ==
    /\ pc[s] = "locate"
    /\ LET found == FindRow(wb[s].rows, args[s].key)
           last == Len(wb[s].rows)
       IN IF found # 0
          THEN /\ local' = [local EXCEPT ![s].row_idx = found]
               /\ UNCHANGED wb
          ELSE /\ local' = [local EXCEPT ![s].row_idx = last]
               /\ wb' = [wb EXCEPT ![s].rows[last].a = args[s].key[1],
                                   ![s].rows[last].b = args[s].key[2]]
    /\ pc' = [pc EXCEPT ![s] = "decode"]
    /\ UNCHANGED <<file, temp, args, result, before, calls, geom>>

\* lines 44-54
Locate(s) ==
    /\ pc[s] = "locate"
    /\ LET found == FindRow(wb[s].rows, args[s].key)
       IN IF found # 0
          THEN /\ local' = [local EXCEPT ![s].row_idx = found]
               /\ UNCHANGED wb
          ELSE /\ local' = [local EXCEPT ![s].row_idx = Len(wb[s].rows) + 1]
               /\ wb' = [wb EXCEPT ![s].rows =
                            Append(@, KeyRow(args[s].key[1], args[s].key[2]))]
    /\ pc' = [pc EXCEPT ![s] = "decode"]
    /\ UNCHANGED <<file, temp, args, result, before, calls, geom>>

\* lines 57-59
Decode(s) ==
    /\ pc[s] = "decode"
    /\ LET img == ImageOf(args[s].img)
       IN IF img.valid
          THEN /\ local' = [local EXCEPT
                               ![s].mode = IF img.mode = "RGBA" THEN "RGB" ELSE img.mode,
                               ![s].width = img.w,
                               ![s].height = img.h]
               /\ pc' = [pc EXCEPT ![s] = "resize"]
          ELSE Raise(s, "decode")
    /\ UNCHANGED <<file, temp, args, wb, result, before, calls, geom>>

\* lines 61-70; resize refuses a size with a zero side
Resize(s) ==
    /\ pc[s] = "resize"
    /\ \E nw \in {NewWidth(local[s].width, local[s].height)},
          nh \in {NewHeight(local[s].width, local[s].height)} :
          IF nw >= 1 /\ nh >= 1
          THEN /\ local' = [local EXCEPT ![s].new_width = nw, ![s].new_height = nh]
               /\ pc' = [pc EXCEPT ![s] = "savetemp"]
          ELSE /\ pc' = [pc EXCEPT ![s] = "except"]
               /\ local' = [local EXCEPT ![s].new_width = nw, ![s].new_height = nh,
                                         ![s].raised = "resize"]
    /\ UNCHANGED <<file, temp, args, wb, result, before, calls, geom>>

\* lines 72-73.  JPEG cannot hold every mode; a refused save may or may not
\* leave the file it opened behind.
SaveTemp(s) ==
    /\ pc[s] = "savetemp"
    /\ IF local[s].mode \in {"RGB", "L", "CMYK"}
       THEN /\ temp' = [exists |-> TRUE, src |-> args[s].img,
                        w |-> local[s].new_width, h |-> local[s].new_height]
            /\ pc' = [pc EXCEPT ![s] = "stage"]
            /\ UNCHANGED local
       ELSE /\ temp' \in {NoTemp, [exists |-> TRUE, src |-> "none", w |-> 0, h |-> 0]}
            /\ Raise(s, "savetemp")
    /\ UNCHANGED <<file, args, wb, result, before, calls, geom>>

\* variant: the column is set to what this image needs, whatever it was
UpdateWidthAlways(w, required) ==
    [w EXCEPT !.max_image_width = required, !.widthC = required]

\* lines 78-81: the image column is widened when this image needs more than
\* max_image_width
UpdateWidth(w, required) ==
    IF required > w.max_image_width
    THEN [w EXCEPT !.max_image_width = required, !.widthC = required]
    ELSE w

\* variant: the sheet keeps only the image added now
AddImageAlone(images, row, t) ==
    <<[row |-> row, src |-> TEMP_IMAGE, w |-> t.w, h |-> t.h]>>

\* lines 88-89: ExcelImage(TEMP_IMAGE) takes its size from the file; add_image
\* appends the overlay to the sheet's images
AddImage(images, row, t) ==
    Append(images, [row |-> row, src |-> TEMP_IMAGE, w |-> t.w, h |-> t.h])

\* line 92: datetime.now(), formatted; the clock is the number of calls so far
Timestamp == calls

\* lines 75-107
Stage(s) ==
    /\ pc[s] = "stage"
    /\ LET row_idx == local[s].row_idx
           sized == UpdateWidth(wb[s], RequiredWidth(local[s].new_width))
           high == [sized EXCEPT !.rows[row_idx].height = RowHeight(local[s].new_height)]
       IN IF temp.exists /\ temp.src # "none"
          THEN /\ wb' = [wb EXCEPT ![s] =
                            [high EXCEPT !.images = AddImage(@, row_idx, temp),
                                         !.rows[row_idx].d = Timestamp]]
               /\ pc' = [pc EXCEPT ![s] = "persist"]
               /\ UNCHANGED local
          ELSE /\ wb' = [wb EXCEPT ![s] = high]
               /\ Raise(s, "stage")
    /\ UNCHANGED <<file, temp, args, result, before, calls, geom>>

\* what the file system does to a wb.save: the archive is written, or the
\* file cannot be opened for writing, or writing stops part way
PersistOutcomes == {"saved", "denied", "partial"}

\* variant: the save keeps the rows the file holds now and puts the row of
\* this upsert among them
PersistMerging(s) ==
    /\ pc[s] = "persist"
    /\ \E outcome \in PersistOutcomes :
         IF outcome = "denied"
         THEN Raise(s, "persist") /\ UNCHANGED file
         ELSE IF outcome = "partial"
                 \/ (HasTempRef(wb[s]) /\ ~(temp.exists /\ temp.src # "none"))
         THEN Raise(s, "persist") /\ file' = CorruptFile
         ELSE /\ LET own == wb[s].rows[local[s].row_idx]
                     at == FindRow(file.rows, args[s].key)
                     merged == IF at # 0 THEN [file.rows EXCEPT ![at] = own]
                               ELSE Append(file.rows, own)
                 IN file' = IF file.status = "ok"
                            THEN [Saved(wb[s], temp) EXCEPT !.rows = merged]
                            ELSE Saved(wb[s], temp)
              /\ local' = [local EXCEPT ![s].ret = "True"]
              /\ pc' = [pc EXCEPT ![s] = "finally"]
    /\ UNCHANGED <<temp, args, wb, result, before, calls, geom>>

\* lines 109-110
Persist(s) ==
    /\ pc[s] = "persist"
    /\ \E outcome \in PersistOutcomes :
         IF outcome = "denied"
         THEN Raise(s, "persist") /\ UNCHANGED file
         ELSE IF outcome = "partial"
                 \/ (HasTempRef(wb[s]) /\ ~(temp.exists /\ temp.src # "none"))
         THEN Raise(s, "persist") /\ file' = CorruptFile
         ELSE /\ file' = Saved(wb[s], temp)
              /\ local' = [local EXCEPT ![s].ret = "True"]
              /\ pc' = [pc EXCEPT ![s] = "finally"]
    /\ UNCHANGED <<temp, args, wb, result, before, calls, geom>>

\* variant: the handler saves the workbook it holds
ExceptSaving(s) ==
    /\ pc[s] = "except"
    /\ local' = [local EXCEPT ![s].ret = "False"]
    /\ pc' = [pc EXCEPT ![s] = "finally"]
    /\ file' = IF wb[s].loaded THEN Saved(wb[s], temp) ELSE file
    /\ UNCHANGED <<temp, args, wb, result, before, calls, geom>>

\* variant: the handler sets no return value
ExceptEscaping(s) ==
    /\ pc[s] = "except"
    /\ pc' = [pc EXCEPT ![s] = "finally"]
    /\ UNCHANGED <<file, temp, args, wb, local, result, before, calls, geom>>

\* lines 112-114
Except(s) ==
    /\ pc[s] = "except"
    /\ local' = [local EXCEPT ![s].ret = "False"]
    /\ pc' = [pc EXCEPT ![s] = "finally"]
    /\ UNCHANGED <<file, temp, args, wb, result, before, calls, geom>>

\* variant: the transient file is left in place
FinallyKeeping(s) ==
    /\ pc[s] = "finally"
    /\ pc' = [pc EXCEPT ![s] = "idle"]
    /\ result' = [result EXCEPT ![s] = local[s].ret]
    /\ UNCHANGED <<file, temp, args, wb, local, before, calls, geom>>

\* lines 115-117, and the return
Finally(s) ==
    /\ pc[s] = "finally"
    /\ temp' = IF temp.exists THEN NoTemp ELSE temp
    /\ pc' = [pc EXCEPT ![s] = "idle"]
    /\ result' = [result EXCEPT ![s] = local[s].ret]
    /\ UNCHANGED <<file, args, wb, local, before, calls, geom>>

\* ----------------------------------------------------------- specifications
\* One upsert at a time (section 5: single writer, synchronous).
SeqCall(key, img) ==
    /\ \A s \in Sessions : pc[s] = "idle"
    /\ Call(MainSession, key, img)

Step(s) ==
    \/ Load(s)
    \/ Locate(s)
    \/ Decode(s)
    \/ Resize(s)
    \/ SaveTemp(s)
    \/ Stage(s)
    \/ Persist(s)
    \/ Except(s)
    \/ Finally(s)

Next ==
    \/ \E key \in Keys, img \in Images : SeqCall(key, img.id)
    \/ \E s \in Sessions : Step(s)

Spec == Init /\ [][Next]_vars

\* The normalization and the geometry on their own, over every size up to
\* MaxW x MaxH.
NormInit ==
    /\ file = MissingFile
    /\ temp = NoTemp
    /\ pc = [s \in Sessions |-> "idle"]
    /\ args = [s \in Sessions |-> NoArgs]
    /\ wb = [s \in Sessions |-> NoWb]
    /\ local = [s \in Sessions |-> NoLocal]
    /\ result = [s \in Sessions |-> "none"]
    /\ before = [s \in Sessions |-> MissingFile]
    /\ calls = 0
    /\ geom \in {[w |-> w, h |-> h, done |-> FALSE, new_width |-> 0, new_height |-> 0] :
                    w \in 1..MaxW, h \in 1..MaxH}

\* lines 61-68 applied to geom
Normalize ==
    /\ ~geom.done
    /\ geom' = [geom EXCEPT !.done = TRUE,
                            !.new_width = NewWidth(geom.w, geom.h),
                            !.new_height = NewHeight(geom.w, geom.h)]
    /\ UNCHANGED <<file, temp, pc, args, wb, local, result, before, calls>>

NormNext == Normalize

NormSpec == NormInit /\ [][NormNext]_vars

\* The same upserts on a table that already holds one key in several rows (a
\* sheet edited outside the program: load_workbook takes the rows as they are).
DuplicateFiles ==
    { SheetFile(<<HeaderRow, KeyRow("S1", "North"), KeyRow("S1", "South"),
                  KeyRow("S1", "North")>>),
      SheetFile(<<HeaderRow, KeyRow("S1", "South"), KeyRow("S1", "South"),
                  KeyRow("S1", "South")>>) }

DupInit ==
    /\ file \in DuplicateFiles
    /\ temp = NoTemp
    /\ pc = [s \in Sessions |-> "idle"]
    /\ args = [s \in Sessions |-> NoArgs]
    /\ wb = [s \in Sessions |-> NoWb]
    /\ local = [s \in Sessions |-> NoLocal]
    /\ result = [s \in Sessions |-> "none"]
    /\ before = [s \in Sessions |-> MissingFile]
    /\ calls = 0
    /\ geom = NoGeom

DupSpec == DupInit /\ [][Next]_vars

\* Two browser sessions of the one Streamlit server: each runs main on its own
\* thread, so an upsert may start while the other session's is under way, on
\* the same EXCEL_FILE and the same TEMP_IMAGE.
\* At most MaxConcCalls upserts of new shops, each with a photo that decodes.
ConcKeys == { <<"S1", "North">>, <<"S1", "South">> }
ConcImages == {"wide", "photo"}

ConcInit ==
    /\ Init
    /\ file = SheetFile(<<HeaderRow>>)

ConcCall(s, key, img) ==
    /\ calls < MaxConcCalls
    /\ Call(s, key, img)

ConcNext ==
    \/ \E s \in Sessions, key \in ConcKeys, img \in ConcImages : ConcCall(s, key, img)
    \/ \E s \in Sessions : Step(s)

ConcSpec == ConcInit /\ [][ConcNext]_vars

\* ------------------------------------------------------------------- claims
Returned(s) == pc[s] = "idle" /\ result[s] # "none"
Succeeded(s) == Returned(s) /\ result[s] = "True"
HoldsKey(row, key) == row.a = key[1] /\ row.b = key[2]
KeyPresent(f, key) == \E i \in 1..Len(f.rows) : HoldsKey(f.rows[i], key)

\* C1: no two persisted record rows carry the same (shop_id, region); a
\* successful upsert of a key that was already present wrote to the row that
\* held the key and left the persisted row count as it was.
C1_KeysStayUnique ==
    /\ \A i, j \in 2..Len(file.rows) :
          i # j => ~HoldsKey(file.rows[i], <<file.rows[j].a, file.rows[j].b>>)
    /\ \A s \in Sessions :
          (Succeeded(s) /\ KeyPresent(before[s], args[s].key))
            => /\ local[s].row_idx <= Len(before[s].rows)
               /\ HoldsKey(before[s].rows[local[s].row_idx], args[s].key)
               /\ HoldsKey(file.rows[local[s].row_idx], args[s].key)
               /\ Len(file.rows) = Len(before[s].rows)

\* C1 witness: a second successful upsert of a key whose row an earlier
\* upsert appended.
C1_Witness ==
    \E s \in Sessions :
       /\ Succeeded(s)
       /\ local[s].row_idx = 2
       /\ Len(before[s].rows) = 2
       /\ before[s].rows[2].d # NoTimestamp
       /\ file.rows[2].d = calls

\* C2: every cell holds at most one image overlay, and after a successful
\* upsert the row of the key has exactly one overlay, the image just given.
C2_OneOverlayPerCell ==
    /\ \A r \in 1..Len(file.rows) : Cardinality(OverlaysAt(file.images, r)) <= 1
    /\ \A s \in Sessions :
          Succeeded(s) =>
             \E i \in 1..Len(file.images) :
                /\ OverlaysAt(file.images, local[s].row_idx) = {i}
                /\ file.images[i].src = args[s].img

\* C3: the persisted width of the image column never decreases, and after a
\* successful upsert it fits every image embedded so far.
C3_WidthGrowOnly ==
    [][/\ (file.status = "ok" /\ file'.status = "ok") => file'.widthC >= file.widthC
       /\ \A s \in Sessions :
             (pc'[s] = "idle" /\ result'[s] = "True") =>
                \A i \in 1..Len(file'.images) :
                   file'.widthC >= RequiredWidth(file'.images[i].w)]_vars

\* C4: after a successful upsert the record listing has an entry for the key
\* whose last_updated field is not empty.
C4_ListedWithTimestamp ==
    \A s \in Sessions :
       Succeeded(s) =>
          \E i \in DOMAIN ListRecords(file) :
             /\ ListRecords(file)[i][1] = args[s].key[1]
             /\ ListRecords(file)[i][2] = args[s].key[2]
             /\ ListRecords(file)[i][3] # EmptyCell

\* C5: an upsert whose image does not decode returns failure and leaves the
\* backing file as it was when the upsert was called.
C5_DecodeFailureKeepsFile ==
    \A s \in Sessions :
       local[s].raised = "decode" =>
          /\ file = before[s]
          /\ pc[s] = "idle" => result[s] = "False"

\* C5 witness: a decode failure has been returned for a key that was absent,
\* after the row had been appended in memory.
C5_Witness ==
    \E s \in Sessions :
       /\ Returned(s)
       /\ local[s].raised = "decode"
       /\ before[s].status = "ok"
       /\ ~KeyPresent(before[s], args[s].key)
       /\ Len(wb[s].rows) = Len(file.rows) + 1

\* C6: an upsert called with no backing file creates it with the header row
\* and the starter widths, and with a valid image it succeeds and appends the
\* record below the header.
C6_FreshFileCreated ==
    \A s \in Sessions :
       (Returned(s) /\ before[s].status = "missing") =>
          /\ file.status # "missing"
          /\ (ImageOf(args[s].img).valid /\ local[s].raised = "none") =>
                /\ result[s] = "True"
                /\ Len(file.rows) = 2
                /\ file.rows[1] = HeaderRow
                /\ HoldsKey(file.rows[2], args[s].key)

\* C7: whenever an upsert has returned, temp_img.jpg does not exist.
C7_TempReleased ==
    \A s \in Sessions : Returned(s) => ~temp.exists

\* C7 witness: an upsert that wrote the transient file and then failed to
\* persist has returned.
C7_Witness ==
    \E s \in Sessions : Returned(s) /\ local[s].raised = "persist"

\* C8: every call returns True or False; a call in which a step raised
\* returns False, True is returned only with the workbook persisted, and a
\* call that has started is never stuck: from each position the next
\* statement group can run, up to the return.
C8_BooleanOutcome ==
    \A s \in Sessions :
       /\ pc[s] \in {"idle", "load", "locate", "decode", "resize", "savetemp",
                     "stage", "persist", "except", "finally"}
       /\ pc[s] # "idle" => ENABLED Step(s)
       /\ pc[s] = "finally" => local[s].ret \in {"True", "False"}
       /\ Returned(s) => result[s] \in {"True", "False"}
       /\ (Returned(s) /\ local[s].raised # "none") => result[s] = "False"
       /\ Succeeded(s) =>
             /\ local[s].raised = "none"
             /\ file.status = "ok"
             /\ file.rows = wb[s].rows
             /\ file.widthC = wb[s].widthC

\* C8 witness: calls have returned False after a failure while persisting.
C8_Witness ==
    \E s \in Sessions :
       Returned(s) /\ local[s].raised = "persist" /\ result[s] = "False"

\* C9: a size of height at most 300 is kept; a taller one gets height 300 and
\* width floor(w * 300 / h).
C9_NormalizedSize ==
    geom.done =>
       IF geom.h <= MAX_IMAGE_HEIGHT
       THEN geom.new_width = geom.w /\ geom.new_height = geom.h
       ELSE /\ geom.new_height = MAX_IMAGE_HEIGHT
            /\ geom.new_width = (geom.w * MAX_IMAGE_HEIGHT) \div geom.h

\* C10 as stated: after a successful upsert the persisted width of the image
\* column is max(10, w / 7) for the normalized width w of that upsert.
C10_WidthMatchesLatest ==
    \A s \in Sessions :
       Succeeded(s) => file.widthC = RequiredWidth(local[s].new_width)

\* C10 amended: after a successful upsert the persisted width of the image
\* column is max(10, w / 7) when that exceeds 30 and is otherwise the width
\* persisted before the call; max(10, 70 / 7) = max(10, 35 / 7) = 10; a
\* 600x900 image upserted over a 400x200 one is embedded as 200x300 in the
\* same row and the width stays what it was.
C10_WidthSetOnlyPastDefault ==
    /\ RequiredWidth(70) = MinColumnWidth
    /\ RequiredWidth(35) = MinColumnWidth
    /\ \A s \in Sessions :
          Succeeded(s) =>
             /\ file.widthC =
                   IF RequiredWidth(local[s].new_width) > DefaultMaxImageWidth
                   THEN RequiredWidth(local[s].new_width)
                   ELSE before[s].widthC
             /\ (/\ args[s].img = "portrait"
                 /\ KeyPresent(before[s], args[s].key)) =>
                    /\ file.images[Len(file.images)] =
                          [row |-> FindRow(before[s].rows, args[s].key),
                           src |-> "portrait", w |-> 200, h |-> 300]
                    /\ file.widthC = before[s].widthC

\* C10 witness: the 600x900 image has been upserted over the 400x200 image
\* of the same key, and the column still has the width 400 / 7.
C10_Witness ==
    \E s \in Sessions :
       /\ Succeeded(s)
       /\ args[s].img = "portrait"
       /\ before[s].widthC = 400
       /\ \E i \in 1..Len(before[s].images) :
             /\ before[s].images[i].src = "photo"
             /\ before[s].images[i].row = local[s].row_idx
       /\ file.widthC = 400

\* the overlays anchored at other rows than row, in the order of the file
OverlaysElsewhere(images, row) == SelectSeq(images, LAMBDA o : o.row # row)

\* C11: a successful upsert sets the height of the key's row to
\* max(15, h / 1.33) for the normalized height h and leaves every other row
\* as it was persisted before: its cells, its timestamp, its height and the
\* images anchored at it.
C11_OtherRowsUntouched ==
    \A s \in Sessions :
       Succeeded(s) =>
          /\ file.rows[local[s].row_idx].height = RowHeight(local[s].new_height)
          /\ \A i \in 1..Len(before[s].rows) :
                i # local[s].row_idx => file.rows[i] = before[s].rows[i]
          /\ \A i \in 1..Len(file.rows) :
                i > Len(before[s].rows) => i = local[s].row_idx
          /\ OverlaysElsewhere(file.images, local[s].row_idx)
                = OverlaysElsewhere(before[s].images, local[s].row_idx)

\* C11 witness: an upsert has succeeded while another row already held a
\* timestamp, a height and an image of its own.
C11_Witness ==
    \E s \in Sessions :
       /\ Succeeded(s)
       /\ \E i \in 1..Len(before[s].rows) :
             /\ i # local[s].row_idx
             /\ before[s].rows[i].d # NoTimestamp
             /\ before[s].rows[i].height # DefaultHeight
             /\ OverlaysAt(before[s].images, i) # {}
             /\ file.rows[i].height # file.rows[local[s].row_idx].height

\* C12: a successful upsert of a key the store does not hold appends one row
\* for it below the rows there were, a lookup of the key then finds that row,
\* and the lookup of every other key finds what it found before; so two such
\* upserts of distinct keys append two rows at different indices, and each
\* key is found at its own row.
C12_NewKeysGetOwnRows ==
    \A s \in Sessions :
       (Succeeded(s) /\ ~KeyPresent(before[s], args[s].key)) =>
          /\ Len(file.rows) = Len(before[s].rows) + 1
          /\ local[s].row_idx = Len(file.rows)
          /\ HoldsKey(file.rows[local[s].row_idx], args[s].key)
          /\ FindRow(file.rows, args[s].key) = local[s].row_idx
          /\ \A k \in Keys \ {args[s].key} :
                FindRow(file.rows, k) = FindRow(before[s].rows, k)

\* C12 witness: the store held only the header; the first upsert appended
\* row 2 for S1/South, the second has appended row 3 for S1/North, and each
\* key is found at its row.
C12_Witness ==
    \E s \in Sessions :
       /\ Succeeded(s)
       /\ calls = 2
       /\ args[s].key = <<"S1", "North">>
       /\ Len(before[s].rows) = 2
       /\ HoldsKey(before[s].rows[2], <<"S1", "South">>)
       /\ before[s].rows[2].d = 1
       /\ Len(file.rows) = 3
       /\ FindRow(file.rows, <<"S1", "South">>) = 2
       /\ FindRow(file.rows, <<"S1", "North">>) = 3

\* C13: when the persisted table holds a key in several rows, a successful
\* upsert of the key has written to the lowest of them and appended nothing,
\* and the later duplicates are never written: in every readable file a row
\* that repeats the key of a row above it has no timestamp, no image and the
\* row height it was loaded with.
C13_FirstMatchWins ==
    /\ \A s \in Sessions :
          (Succeeded(s) /\ KeyPresent(before[s], args[s].key)) =>
             /\ local[s].row_idx \in 1..Len(before[s].rows)
             /\ HoldsKey(before[s].rows[local[s].row_idx], args[s].key)
             /\ \A i \in 1..Len(before[s].rows) :
                   HoldsKey(before[s].rows[i], args[s].key) => local[s].row_idx <= i
             /\ Len(file.rows) = Len(before[s].rows)
             /\ file.rows[local[s].row_idx].d # NoTimestamp
             /\ OverlaysAt(file.images, local[s].row_idx) # {}
    /\ file.status = "ok" =>
          \A i \in 1..Len(file.rows) :
             (\E j \in 1..(i - 1) : HoldsKey(file.rows[i], <<file.rows[j].a, file.rows[j].b>>)) =>
                /\ file.rows[i].d = NoTimestamp
                /\ file.rows[i].height = DefaultHeight
                /\ OverlaysAt(file.images, i) = {}

\* C13 witness: the table held S1/North in rows 2 and 4; a second successful
\* upsert of S1/North has again written row 2, and row 4 is as it was loaded.
C13_Witness ==
    \E s \in Sessions :
       /\ Succeeded(s)
       /\ args[s].key = <<"S1", "North">>
       /\ Len(before[s].rows) = 4
       /\ HoldsKey(before[s].rows[2], args[s].key)
       /\ HoldsKey(before[s].rows[4], args[s].key)
       /\ before[s].rows[2].d # NoTimestamp
       /\ local[s].row_idx = 2
       /\ file.rows[2].d = calls
       /\ file.rows[4] = KeyRow("S1", "North")

\* C14: the image is decoded and normalized before the row is located or
\* appended: while an upsert has not decoded its image, and after it failed
\* to decode it, no row is selected and the in-memory rows are the rows of
\* the file (no Append before Normalize).
C14_DecodeBeforeLocate ==
    \A s \in Sessions :
       (pc[s] # "idle" /\ local[s].mode = "none") =>
          /\ local[s].row_idx = 0
          /\ wb[s].loaded => wb[s].rows = before[s].rows

\* C15: a save overwrites the whole file from the saving upsert's own copy:
\* when wb.save succeeds the persisted rows are exactly the rows that upsert
\* holds in memory, whatever another upsert persisted since it loaded; so of
\* two upserts that both load before either persists, the one that persists
\* last leaves only its own row.
C15_LastPersistWins ==
    [][\A s \in Sessions :
          (pc[s] = "persist" /\ pc'[s] = "finally") =>
             /\ file'.status = "ok"
             /\ file'.rows = wb[s].rows
             /\ Len(file'.images) = Len(wb[s].images)]_vars

\* C15 witness: two upserts of distinct new keys have both returned True, each
\* started on the file that held only the header, and the file holds the
\* header and one row: the row of one of the keys is lost.
C15_Witness ==
    /\ \A s \in Sessions :
          /\ Succeeded(s)
          /\ before[s] = SheetFile(<<HeaderRow>>)
          /\ local[s].row_idx = 2
    /\ args[1].key # args[2].key
    /\ file.status = "ok"
    /\ Len(file.rows) = 2
    /\ \E s \in Sessions :
          /\ HoldsKey(file.rows[2], args[s].key)
          /\ \A t \in Sessions \ {s} : ~KeyPresent(file, args[t].key)

\* C16: the transient image belongs to the upsert that wrote it: the image
\* an upsert embeds when its save succeeds is the image it was given.
C16_EmbedsOwnImage ==
    [][\A s \in Sessions :
          (pc[s] = "persist" /\ pc'[s] = "finally") =>
             file'.images[Len(file'.images)].src = args[s].img]_vars

\* C17: row 1 is the header and no upsert writes to it: in every readable
\* persisted file row 1 holds the header values, no timestamp and the row
\* height it had, and no image is anchored at it.
C17_HeaderUntouched ==
    file.status = "ok" =>
       /\ file.rows[1] = HeaderRow
       /\ OverlaysAt(file.images, 1) = {}

====
